---------------------------- MODULE Spec2Model ----------------------------
(***************************************************************************)
(* Model of the PCR snapshot pipeline of src/generate_snapshot.py:         *)
(* per_expiry_totals (raw aggregation), the four enrichment passes,        *)
(* bucket_term_structure and the top-N rankers.                            *)
(*                                                                         *)
(* Numbers.  A pandas/numpy number is a record [nan, v]: NaN (also a null  *)
(* cell) is [nan |-> TRUE, v |-> 0], a value is [nan |-> FALSE, v |-> n].  *)
(* Raw contract quantities are counted in halves (v = 3 is 1.5 contracts)  *)
(* so that non-integral provider values exist in the model; aggregated     *)
(* quantities are whole numbers; ratios rounded to 6 decimals are integers *)
(* in units of 1e-6 and values rounded to 8 decimals are in units of 1e-8. *)
(* Arithmetic is exact (rational), rounding is round-half-to-even as       *)
(* Python's round() and numpy's round do.                                  *)
(***************************************************************************)
EXTENDS Integers, Sequences, FiniteSets, TLC

VARIABLES
    pc,            \* position of the run being modelled
    listed,        \* tk.options: the provider's listing of expiry labels
    max_expiries,  \* the cap argument: NoCap (None) or <<n>>
    expiries,      \* the capped list per_expiry_totals iterates over
    idx,           \* number of loop iterations of per_expiry_totals done
    fetched,       \* per attempted expiry, what tk.option_chain returned
    attempted,     \* the expiries the loop has attempted, in order
    rows,          \* per_expiry_totals' local list `rows`
    used,          \* per_expiry_totals' local counter `used`
    base,          \* the aggregated table handed to the signal layer
    asof,          \* the as-of date of add_dte
    thr,           \* the thresholds of add_quality_flags
    order,         \* the enrichment passes applied so far, in order
    df,            \* the current table
    attrs,         \* df.attrs
    query,         \* the call that produced view: function and arguments
    view,          \* the last result of a ranker or of bucket_term_structure
    err            \* the exception that ended the run, or "none"

vars == <<pc, listed, max_expiries, expiries, idx, fetched, attempted, rows,
          used, base, asof, thr, order, df, attrs, query, view, err>>

\* The state of the signal layer, which per_expiry_totals leaves alone.
signalVars == <<base, asof, thr, order, query, view>>

\* The locals of per_expiry_totals, which the signal layer leaves alone.
totalsVars == <<listed, max_expiries, expiries, idx, fetched, attempted, rows,
                used, attrs>>

---------------------------------------------------------------------------
(* Numbers *)

NaN == [nan |-> TRUE, v |-> 0]

Num(n) == [nan |-> FALSE, v |-> n]

IsNum(x) == ~x.nan

\* Series.fillna(0)
FillNa0(x) == IF x.nan THEN Num(0) ELSE x

Abs(n) == IF n < 0 THEN -n ELSE n

\* round(n / d) to the nearest integer, ties to the even one (d > 0).
RoundHalfEven(n, d) ==
    LET q == n \div d
        r == n % d
    IN  IF 2 * r < d THEN q
        ELSE IF 2 * r > d THEN q + 1
        ELSE IF q % 2 = 0 THEN q ELSE q + 1

\* <<floor(n * 10^k / d), remainder>> for 0 <= n, 0 < d, by long division,
\* so that no intermediate product exceeds 10 * d.
RECURSIVE LongDiv(_, _, _, _)
LongDiv(q, r, d, k) ==
    IF k = 0 THEN <<q, r>>
    ELSE LongDiv(q * 10 + (r * 10) \div d, (r * 10) % d, d, k - 1)

\* round(n / d, k) in units of 10^-k, ties to even (d > 0).
RoundRatio(n, d, k) ==
    LET a  == Abs(n)
        qr == LongDiv(a \div d, a % d, d, k)
        q  == qr[1]
        r  == qr[2]
        m  == IF 2 * r < d THEN q
              ELSE IF 2 * r > d THEN q + 1
              ELSE IF q % 2 = 0 THEN q ELSE q + 1
    IN  IF n < 0 THEN -m ELSE m

\* Sequences over S without repetition, of length at most n.
RECURSIVE Arrangements(_, _)
Arrangements(S, n) ==
    IF n = 0 THEN {<<>>}
    ELSE LET shorter == Arrangements(S, n - 1)
         IN  shorter \cup {Append(s, x) : s \in shorter, x \in S}

NoRepeat(s) == \A i, j \in DOMAIN s : i # j => s[i] # s[j]

SubSeqTo(s, n) == [i \in 1..(IF n < Len(s) THEN n ELSE Len(s)) |-> s[i]]

---------------------------------------------------------------------------
(* Bounds and inputs *)

\* Longest listing of expiries the provider returns.
MaxExpiries == 3

\* Largest cap tried for max_expiries.
MaxCap == 2

NoCap == <<>>

ExpiryLabels == 1..MaxExpiries

Listings == {s \in Arrangements(ExpiryLabels, MaxExpiries) : NoRepeat(s)}

Caps == {NoCap} \cup {<<n>> : n \in 0..MaxCap}

\* One option contract row: volume and openInterest, in halves, nullable.
Contract(vol, oi) == [volume |-> vol, openInterest |-> oi]

Chain(calls, puts) == [calls |-> calls, puts |-> puts]

\* The option chains a retrieval can return.
ChainSamples ==
    << \* the spec's expiry A: call_vol 600, put_vol 900, call_oi 2000, put_oi 1000
       Chain(<<Contract(Num(1200), Num(4000))>>, <<Contract(Num(1800), Num(2000))>>),
       \* the spec's expiry B: call_vol 0, put_vol 50, call_oi 500, put_oi 2000
       Chain(<<Contract(Num(0), Num(1000))>>, <<Contract(Num(100), Num(4000))>>),
       \* null cells, several contracts per side
       Chain(<<Contract(NaN, Num(6)), Contract(Num(2), NaN)>>,
             <<Contract(Num(4), Num(2)), Contract(NaN, NaN)>>),
       \* no call-side open interest and no call-side volume
       Chain(<<Contract(Num(0), Num(0))>>, <<Contract(Num(6), Num(8))>>),
       \* half contracts on both sides
       Chain(<<Contract(Num(3), Num(1))>>, <<Contract(Num(1), Num(1))>>),
       \* no rows at all
       Chain(<<>>, <<>>) >>

\* The tag of an expiry whose try block raised (the except clause).
Failure == 0

\* What tk.option_chain(exp) and the arithmetic on it can do for one expiry:
\* raise (Failure) or deliver the chain ChainSamples[k].
Outcomes == {Failure} \cup DOMAIN ChainSamples

---------------------------------------------------------------------------
(* per_expiry_totals *)

NoRaise == "none"

SYMBOL == "SPY"

RECURSIVE ColumnSum(_, _)
\* float(frame[col].fillna(0).sum()), in halves
ColumnSum(frame, col) ==
    IF frame = <<>> THEN 0
    ELSE FillNa0(Head(frame)[col]).v + ColumnSum(Tail(frame), col)

\* A slip that tests the rounded denominator instead of the sum itself.
SafeRatio6OnRounded(p, c) ==
    IF RoundHalfEven(c, 2) > 0 THEN Num(RoundRatio(p, c, 6)) ELSE NaN

\* `p / c if c > 0 else np.nan`, then `round(float(x), 6) if np.isfinite(x)`
SafeRatio6(p, c) == IF c > 0 THEN Num(RoundRatio(p, c, 6)) ELSE NaN

\* int(round(x)) of a quantity x given in halves
RoundHalves(h) == RoundHalfEven(h, 2)

\* The row per_expiry_totals appends for expiry exp with chain ch.
TotalsRow(exp, ch) ==
    LET c_vol == ColumnSum(ch.calls, "volume")
        p_vol == ColumnSum(ch.puts, "volume")
        c_oi  == ColumnSum(ch.calls, "openInterest")
        p_oi  == ColumnSum(ch.puts, "openInterest")
    IN  [Symbol      |-> SYMBOL,
         Expiry      |-> Num(exp),
         Put_Volume  |-> Num(RoundHalves(p_vol)),
         Call_Volume |-> Num(RoundHalves(c_vol)),
         Volume_PCR  |-> SafeRatio6(p_vol, c_vol),
         Put_OI      |-> Num(RoundHalves(p_oi)),
         Call_OI     |-> Num(RoundHalves(c_oi)),
         OI_PCR      |-> SafeRatio6(p_oi, c_oi),
         Total_OI    |-> Num(RoundHalves(p_oi + c_oi))]

\* The order of DataFrame.sort_values: NaN last, numbers in the direction asked.
KeyLeq(a, b, ascending) ==
    IF a.nan THEN b.nan
    ELSE b.nan \/ (IF ascending THEN a.v <= b.v ELSE a.v >= b.v)

RECURSIVE InsertBy(_, _, _, _)
InsertBy(r, s, col, ascending) ==
    IF s = <<>> THEN <<r>>
    ELSE IF KeyLeq(Head(s)[col], r[col], ascending)
         THEN <<Head(s)>> \o InsertBy(r, Tail(s), col, ascending)
         ELSE <<r>> \o s

RECURSIVE SortBy(_, _, _)
\* DataFrame.sort_values(col, ascending=...), rows of equal key in table order
SortBy(s, col, ascending) ==
    IF s = <<>> THEN <<>>
    ELSE InsertBy(s[Len(s)], SortBy(SubSeqTo(s, Len(s) - 1), col, ascending),
                  col, ascending)

NoTable == <<>>

NoQuery == [fn |-> "none"]

NoAttrs == [Expiries_Used |-> 0, Expiries_Requested |-> 0]

AggInit ==
    /\ pc = "start"
    /\ listed \in Listings
    /\ max_expiries \in Caps
    /\ expiries = <<>>
    /\ idx = 0
    /\ fetched = <<>>
    /\ attempted = <<>>
    /\ rows = <<>>
    /\ used = 0
    /\ base = NoTable
    /\ asof = 0
    /\ thr = <<0, 0, 0>>
    /\ order = <<>>
    /\ df = NoTable
    /\ attrs = NoAttrs
    /\ query = NoQuery
    /\ view = NoTable
    /\ err = NoRaise

\* lines 49-58: the listing, the empty check, the cap
ListExpiries ==
    /\ pc = "start"
    /\ IF listed = <<>>
       THEN /\ err' = "RuntimeError: No option expirations"
            /\ pc' = "raised"
            /\ UNCHANGED expiries
       ELSE /\ expiries' = IF max_expiries = NoCap THEN listed
                           ELSE SubSeqTo(listed, max_expiries[1])
            /\ pc' = "loop"
            /\ UNCHANGED err
    /\ UNCHANGED <<listed, max_expiries, idx, fetched, attempted, rows, used,
                   df, attrs, signalVars>>

\* A slip that counts the expiry before its chain is retrieved.
AfterExpiryCountingEarly(exp, outcome, rs, n) ==
    IF outcome = Failure THEN <<rs, n + 1>>
    ELSE <<Append(rs, TotalsRow(exp, ChainSamples[outcome])), n + 1>>

\* What one iteration of the loop makes of rows and used (lines 61-87).
AfterExpiry(exp, outcome, rs, n) ==
    IF outcome = Failure THEN <<rs, n>>
    ELSE <<Append(rs, TotalsRow(exp, ChainSamples[outcome])), n + 1>>

\* lines 60-87: one iteration of `for exp in expiries`
ProcessExpiry ==
    /\ pc = "loop"
    /\ idx < Len(expiries)
    /\ \E outcome \in Outcomes :
          LET exp   == expiries[idx + 1]
              after == AfterExpiry(exp, outcome, rows, used)
          IN  /\ fetched' = Append(fetched, outcome)
              /\ attempted' = Append(attempted, exp)
              /\ rows' = after[1]
              /\ used' = after[2]
    /\ idx' = idx + 1
    /\ UNCHANGED <<pc, listed, max_expiries, expiries, df, attrs, err, signalVars>>

\* lines 89-95: the empty check, the sort, the attrs
FinishTotals ==
    /\ pc = "loop"
    /\ idx = Len(expiries)
    /\ IF rows = <<>>
       THEN /\ err' = "RuntimeError: No chain data aggregated"
            /\ pc' = "raised"
            /\ UNCHANGED <<df, attrs>>
       ELSE /\ df' = SortBy(rows, "Expiry", TRUE)
            /\ attrs' = [Expiries_Used |-> used, Expiries_Requested |-> Len(expiries)]
            /\ pc' = "returned"
            /\ UNCHANGED err
    /\ UNCHANGED <<listed, max_expiries, expiries, idx, fetched, attempted, rows,
                   used, signalVars>>

AggNext == ListExpiries \/ ProcessExpiry \/ FinishTotals

Spec == AggInit /\ [][AggNext]_vars

---------------------------------------------------------------------------
(* Claims about per_expiry_totals *)

Finished == pc \in {"returned", "raised"}

Successes == {i \in DOMAIN fetched : fetched[i] # Failure}

\* The chains of the successful expiries, in the order of `rows`.
SuccessfulChains ==
    LET ok == SelectSeq(fetched, LAMBDA o : o # Failure)
    IN  [k \in DOMAIN ok |-> ChainSamples[ok[k]]]

\* C1: every expiry of the capped list is attempted exactly once, in list
\* order, whatever fails; the run raises iff no expiry produced a row, and
\* otherwise returns one row per successful expiry, Expiries_Used being the
\* number of successes and Expiries_Requested the length of the capped list.
C1_SkipAndCount ==
    /\ pc = "loop" => attempted = SubSeqTo(expiries, idx)
    /\ Len(fetched) = Len(attempted)
    /\ Finished =>
          /\ attempted = expiries
          /\ (pc = "raised") <=> (Successes = {})
          /\ pc = "returned" =>
                /\ Len(df) = Cardinality(Successes)
                /\ {df[k].Expiry.v : k \in DOMAIN df} = {attempted[i] : i \in Successes}
                /\ attrs.Expiries_Used = Cardinality(Successes)
                /\ attrs.Expiries_Requested = Len(expiries)

\* A run that returned although an expiry failed before a later one succeeded.
C1_Witness ==
    /\ pc = "returned"
    /\ \E i, j \in DOMAIN fetched : i < j /\ fetched[i] = Failure /\ fetched[j] # Failure
    /\ attrs.Expiries_Used < attrs.Expiries_Requested
    /\ max_expiries # NoCap

\* C2: in every row appended by per_expiry_totals the stored Total_OI is the
\* stored Put_OI plus the stored Call_OI.
C2_TotalIsSum ==
    \A k \in DOMAIN rows : rows[k].Total_OI.v = rows[k].Put_OI.v + rows[k].Call_OI.v

\* C3: a row's OI_PCR (Volume_PCR) is NaN iff the call-side open-interest
\* (volume) sum is exactly 0, and is otherwise a number >= 0.
C3_RatioNaNIffZeroCalls ==
    /\ Len(rows) = Len(SuccessfulChains)
    /\ \A k \in DOMAIN rows :
          LET ch == SuccessfulChains[k]
          IN  /\ rows[k].OI_PCR.nan <=> (ColumnSum(ch.calls, "openInterest") = 0)
              /\ rows[k].Volume_PCR.nan <=> (ColumnSum(ch.calls, "volume") = 0)
              /\ IsNum(rows[k].OI_PCR) => rows[k].OI_PCR.v >= 0
              /\ IsNum(rows[k].Volume_PCR) => rows[k].Volume_PCR.v >= 0

\* Rows of every kind: a NaN OI_PCR, a NaN Volume_PCR next to a finite OI_PCR,
\* and a finite ratio over a call-side sum that rounds to 0.
C3_Witness ==
    /\ \E k \in DOMAIN rows : rows[k].OI_PCR.nan
    /\ \E k \in DOMAIN rows : rows[k].Volume_PCR.nan /\ rows[k].OI_PCR = Num(4000000)
    /\ \E k \in DOMAIN rows : IsNum(rows[k].OI_PCR) /\ rows[k].Call_OI.v = 0

---------------------------------------------------------------------------
(* Signal layer: inputs *)

\* Most rows of a table handed to the signal layer.
MaxRows == 3

MIN_CALL_OI == 1000

MIN_CALL_VOL == 500

MIN_TOTAL_OI == 10000

\* Further chains, aggregated into sample rows below (in halves).
SkewedChain == Chain(<<Contract(Num(2000), Num(2000))>>, <<Contract(Num(1000), Num(14000))>>)

LiquidChain == Chain(<<Contract(Num(4000), Num(40000))>>, <<Contract(Num(6000), Num(20000))>>)

CallsOnlyChain == Chain(<<Contract(Num(1200), Num(24000))>>, <<Contract(Num(600), Num(0))>>)

\* A row no aggregation produces: an unparseable expiry label, non-numeric
\* Call_OI and Total_OI cells, a negative OI_PCR.
IrregularRow ==
    [Symbol      |-> SYMBOL,
     Expiry      |-> NaN,
     Put_Volume  |-> Num(10),
     Call_Volume |-> Num(700),
     Volume_PCR  |-> Num(1000000),
     Put_OI      |-> Num(50),
     Call_OI     |-> NaN,
     OI_PCR      |-> Num(-500000),
     Total_OI    |-> NaN]

\* The rows tables are made of, by ascending expiry (a day number; NaN last).
RowSamples ==
    << TotalsRow(10, ChainSamples[1]),    \* A: Volume_PCR 1.5, OI_PCR 0.5
       TotalsRow(20, SkewedChain),        \* Volume_PCR 0.5, OI_PCR 7.0
       TotalsRow(21, ChainSamples[2]),    \* B: Volume_PCR NaN, OI_PCR 4.0
       TotalsRow(60, LiquidChain),        \* as A, ten times the size
       TotalsRow(61, ChainSamples[3]),    \* Volume_PCR 2.0, OI_PCR 0.333333
       TotalsRow(100, CallsOnlyChain),    \* Volume_PCR 0.5, OI_PCR 0.0
       TotalsRow(121, ChainSamples[4]),   \* both ratios NaN
       IrregularRow >>

\* Tables as per_expiry_totals returns them: not empty, sorted by Expiry.
RECURSIVE Selections(_, _)
Selections(from, n) ==
    IF n = 0 \/ from > Len(RowSamples) THEN {<<>>}
    ELSE Selections(from + 1, n)
         \cup {<<RowSamples[from]>> \o t : t \in Selections(from + 1, n - 1)}

Tables == {t \in Selections(1, MaxRows) : t # <<>>}

\* date.today(), or the injected as-of date
AsOfDates == {0, 1}

\* <<min_call_oi, min_call_vol, min_total_oi>>: the module's defaults, the
\* values of row A (every comparison an equality), and no gate at all.
ThresholdChoices ==
    { <<MIN_CALL_OI, MIN_CALL_VOL, MIN_TOTAL_OI>>, <<2000, 600, 3000>>, <<0, 0, 0>> }

\* The passes in the order enrich_per_expiry applies them (lines 161-164).
Passes == <<"add_dte", "add_flow_vs_positioning", "add_quality_flags", "add_event_score">>

Range(s) == {s[i] : i \in DOMAIN s}

Columns(t) == IF t = <<>> THEN {} ELSE DOMAIN t[1]

\* out[col] = values: every row gets (or has overwritten) column col.
WithColumn(t, col, values) == [i \in DOMAIN t |-> (col :> values[i]) @@ t[i]]

---------------------------------------------------------------------------
(* Signal layer: the four passes *)

\* (x - d0).days for a parsed expiry, NaN for one coerced to NaT/None
DteOf(expiry, d0) == IF expiry.nan THEN NaN ELSE Num(expiry.v - d0)

add_dte(t, d0) == WithColumn(t, "DTE", [i \in DOMAIN t |-> DteOf(t[i].Expiry, d0)])

\* (v - oi).round(6): both are multiples of 1e-6 already
DivergenceOf(v, oi) == IF v.nan \/ oi.nan THEN NaN ELSE Num(v.v - oi.v)

\* A slip that guards the division against a zero OI_PCR only.
ImpulseOfNonZero(v, oi) ==
    IF IsNum(oi) /\ oi.v # 0 /\ IsNum(v)
    THEN Num(IF oi.v > 0 THEN RoundRatio(v.v, oi.v, 6) ELSE -RoundRatio(v.v, -oi.v, 6))
    ELSE NaN

\* np.where((oi > 0) & isfinite(oi) & isfinite(v), v / oi, nan), .round(6)
ImpulseOf(v, oi) ==
    IF IsNum(oi) /\ oi.v > 0 /\ IsNum(v) THEN Num(RoundRatio(v.v, oi.v, 6)) ELSE NaN

add_flow_vs_positioning(t) ==
    LET d == WithColumn(t, "Divergence_Vol_minus_OI",
                        [i \in DOMAIN t |-> DivergenceOf(t[i].Volume_PCR, t[i].OI_PCR)])
    IN  WithColumn(d, "Impulse_Vol_over_OI",
                   [i \in DOMAIN t |-> ImpulseOf(t[i].Volume_PCR, t[i].OI_PCR)])

\* A slip that compares strictly.
MoreThan(x, m) == IsNum(x) /\ x.v > m

\* series >= m: False where the cell is NaN
AtLeast(x, m) == IsNum(x) /\ x.v >= m

QualityOf(r, min_call_oi, min_call_vol, min_total_oi) ==
    /\ AtLeast(r.Call_OI, min_call_oi)
    /\ AtLeast(r.Call_Volume, min_call_vol)
    /\ AtLeast(r.Total_OI, min_total_oi)

add_quality_flags(t, th) ==
    WithColumn(t, "Quality_OK", [i \in DOMAIN t |-> QualityOf(t[i], th[1], th[2], th[3])])

RECURSIVE MulDiv(_, _, _)
\* <<(a * b) \div d, (a * b) % d>> for a, b >= 0 and d > 0, digit by digit
\* of b, so that no intermediate exceeds 10 * d + 9 * a.
MulDiv(a, b, d) ==
    IF b = 0 THEN <<0, 0>>
    ELSE LET prev == MulDiv(a, b \div 10, d)
             x    == 10 * prev[2] + a * (b % 10)
         IN  <<10 * prev[1] + x \div d, x % d>>

\* round(a * b / d, k) in units of 10^-k, ties to even (a >= 0, d > 0).
RoundMulDiv(a, b, d, k) ==
    LET whole == MulDiv(a, Abs(b), d)
        qr    == LongDiv(whole[1], whole[2], d, k)
        q     == qr[1]
        r     == qr[2]
        m     == IF 2 * r < d THEN q
                 ELSE IF 2 * r > d THEN q + 1
                 ELSE IF q % 2 = 0 THEN q ELSE q + 1
    IN  IF b < 0 THEN -m ELSE m

RECURSIVE TotalOISum(_)
\* float(_to_num(t["Total_OI"]).fillna(0.0).sum())
TotalOISum(t) ==
    IF t = <<>> THEN 0 ELSE FillNa0(Head(t).Total_OI).v + TotalOISum(Tail(t))

\* A slip that fills a missing OI_PCR with 0 before weighting.
EventScoreOfFilled(tot_oi, oi_pcr, denom) ==
    Num(RoundMulDiv(FillNa0(tot_oi).v, FillNa0(oi_pcr).v, denom, 2))

\* (share * oi_pcr).round(8) with share = tot_oi / denom: in units of 1e-8 it
\* is tot_oi * oi_pcr * 100 / denom, oi_pcr being in units of 1e-6.
EventScoreOf(tot_oi, oi_pcr, denom) ==
    IF oi_pcr.nan THEN NaN
    ELSE Num(RoundMulDiv(FillNa0(tot_oi).v, oi_pcr.v, denom, 2))

\* A slip that takes the denominator over the quality-gated rows once the
\* Quality_OK column is there.
add_event_score_gated(t) ==
    LET gated == IF "Quality_OK" \in Columns(t)
                 THEN SelectSeq(t, LAMBDA r : r.Quality_OK) ELSE t
        denom == TotalOISum(gated)
    IN  WithColumn(t, "EventScore_OIshare_x_OI_PCR",
                   [i \in DOMAIN t |->
                       IF denom <= 0 THEN NaN
                       ELSE EventScoreOf(t[i].Total_OI, t[i].OI_PCR, denom)])

add_event_score(t) ==
    LET denom == TotalOISum(t)
    IN  WithColumn(t, "EventScore_OIshare_x_OI_PCR",
                   [i \in DOMAIN t |->
                       IF denom <= 0 THEN NaN
                       ELSE EventScoreOf(t[i].Total_OI, t[i].OI_PCR, denom)])

\* lines 161-164 of enrich_per_expiry
enrich_per_expiry(t, d0, th) ==
    add_event_score(add_quality_flags(add_flow_vs_positioning(add_dte(t, d0)), th))

SignalInit ==
    /\ pc = "signals"
    /\ base \in Tables
    /\ asof \in AsOfDates
    /\ thr \in ThresholdChoices
    /\ order = <<>>
    /\ df = base
    /\ query = NoQuery
    /\ view = NoTable
    /\ err = NoRaise
    /\ listed = <<>>
    /\ max_expiries = NoCap
    /\ expiries = <<>>
    /\ idx = 0
    /\ fetched = <<>>
    /\ attempted = <<>>
    /\ rows = <<>>
    /\ used = 0
    /\ attrs = NoAttrs

\* What pd.to_datetime(errors="coerce").dt.date and the lambda of line 104
\* make of the table's labels: every label parsed ("dates"); or some label
\* coerced to a missing date, which the lambda turns into NaN when it is
\* None ("missing") and subtracts d0 from, raising, when it is NaT ("raise").
DateOutcomes(t) ==
    IF \E i \in DOMAIN t : t[i].Expiry.nan THEN {"missing", "raise"} ELSE {"dates"}

Pending(pass) == pc = "signals" /\ pass \notin Range(order)

AddDte ==
    /\ Pending("add_dte")
    /\ \E outcome \in DateOutcomes(df) :
          IF outcome = "raise"
          THEN /\ pc' = "raised"
               /\ err' = "TypeError"
               /\ UNCHANGED <<df, order>>
          ELSE /\ df' = add_dte(df, asof)
               /\ order' = Append(order, "add_dte")
               /\ UNCHANGED <<pc, err>>
    /\ UNCHANGED <<base, asof, thr, query, view, totalsVars>>

AddFlowVsPositioning ==
    /\ Pending("add_flow_vs_positioning")
    /\ df' = add_flow_vs_positioning(df)
    /\ order' = Append(order, "add_flow_vs_positioning")
    /\ UNCHANGED <<pc, err, base, asof, thr, query, view, totalsVars>>

AddQualityFlags ==
    /\ Pending("add_quality_flags")
    /\ df' = add_quality_flags(df, thr)
    /\ order' = Append(order, "add_quality_flags")
    /\ UNCHANGED <<pc, err, base, asof, thr, query, view, totalsVars>>

AddEventScore ==
    /\ Pending("add_event_score")
    /\ df' = add_event_score(df)
    /\ order' = Append(order, "add_event_score")
    /\ UNCHANGED <<pc, err, base, asof, thr, query, view, totalsVars>>

EnrichNext == AddDte \/ AddFlowVsPositioning \/ AddQualityFlags \/ AddEventScore

\* The four passes over a table, each once, in any order.
EnrichSpec == SignalInit /\ [][EnrichNext]_vars

---------------------------------------------------------------------------
(* Exact arithmetic on numbers too wide for one integer: little-endian      *)
(* sequences of limbs in base 10^4.                                         *)

Limb == 100 * 100

RECURSIVE ToBig(_)
ToBig(n) == IF n < Limb THEN <<n>> ELSE <<n % Limb>> \o ToBig(n \div Limb)

RECURSIVE Trim(_)
\* without leading zero limbs
Trim(x) == IF Len(x) > 1 /\ x[Len(x)] = 0 THEN Trim(SubSeqTo(x, Len(x) - 1)) ELSE x

RECURSIVE AddLimbs(_, _, _)
AddLimbs(x, y, carry) ==
    IF x = <<>> /\ y = <<>> THEN (IF carry = 0 THEN <<>> ELSE <<carry>>)
    ELSE LET a == IF x = <<>> THEN 0 ELSE Head(x)
             b == IF y = <<>> THEN 0 ELSE Head(y)
             t == a + b + carry
         IN  <<t % Limb>> \o AddLimbs(IF x = <<>> THEN <<>> ELSE Tail(x),
                                      IF y = <<>> THEN <<>> ELSE Tail(y), t \div Limb)

BigAdd(x, y) == Trim(AddLimbs(x, y, 0))

RECURSIVE ScaleLimbs(_, _, _)
ScaleLimbs(x, m, carry) ==
    IF x = <<>> THEN (IF carry = 0 THEN <<>> ELSE ToBig(carry))
    ELSE LET t == Head(x) * m + carry
         IN  <<t % Limb>> \o ScaleLimbs(Tail(x), m, t \div Limb)

\* x * m for 0 <= m <= Limb
BigScale(x, m) == Trim(IF m = 0 THEN <<0>> ELSE ScaleLimbs(x, m, 0))

RECURSIVE BigTimes(_, _)
\* x * n for an integer n >= 0
BigTimes(x, n) ==
    IF n = 0 THEN <<0>>
    ELSE BigAdd(BigScale(x, n % Limb), Trim(<<0>> \o BigTimes(x, n \div Limb)))

RECURSIVE LimbsLeq(_, _, _)
LimbsLeq(x, y, k) ==
    IF k = 0 THEN TRUE
    ELSE IF x[k] # y[k] THEN x[k] < y[k]
    ELSE LimbsLeq(x, y, k - 1)

BigLeq(x, y) ==
    IF Len(x) # Len(y) THEN Len(x) < Len(y) ELSE LimbsLeq(x, y, Len(x))

RECURSIVE SubLimbs(_, _, _)
SubLimbs(x, y, borrow) ==
    IF x = <<>> THEN <<>>
    ELSE LET b == IF y = <<>> THEN 0 ELSE Head(y)
             t == Head(x) - b - borrow
         IN  <<IF t < 0 THEN t + Limb ELSE t>>
             \o SubLimbs(Tail(x), IF y = <<>> THEN <<>> ELSE Tail(y),
                         IF t < 0 THEN 1 ELSE 0)

\* x - y for x >= y
BigSub(x, y) == Trim(SubLimbs(x, y, 0))

RECURSIVE BigDivMod(_, _, _)
\* <<q, r>> with x = q * w + r and r < w, for x < 10 * w
BigDivMod(x, w, q) ==
    IF BigLeq(w, x) THEN BigDivMod(BigSub(x, w), w, q + 1) ELSE <<q, x>>

RECURSIVE BigLongDiv(_, _, _, _)
BigLongDiv(q, r, w, k) ==
    IF k = 0 THEN <<q, r>>
    ELSE LET step == BigDivMod(BigScale(r, 10), w, 0)
         IN  BigLongDiv(q * 10 + step[1], step[2], w, k - 1)

\* round(x / w, k) in units of 10^-k, ties to even, for 0 <= x <= w, w > 0
RoundBigRatio(x, w, k) ==
    LET first == BigDivMod(x, w, 0)
        qr    == BigLongDiv(first[1], first[2], w, k)
        q     == qr[1]
        twice == BigScale(qr[2], 2)
    IN  IF twice = w THEN (IF q % 2 = 0 THEN q ELSE q + 1)
        ELSE IF BigLeq(twice, w) THEN q
        ELSE q + 1

---------------------------------------------------------------------------
(* Rankers *)

\* Largest top_n asked of a ranker.
MaxTopN == 2

\* t[t["Quality_OK"] == True] when asked for and the column is there
QualityGate(t, require_quality_ok) ==
    IF require_quality_ok /\ "Quality_OK" \in Columns(t)
    THEN SelectSeq(t, LAMBDA r : r.Quality_OK)
    ELSE t

\* t[t[metric].notna()]
DropNaN(t, metric) == SelectSeq(t, LAMBDA r : IsNum(r[metric]))

\* df.head(n)
HeadRows(t, n) == SubSeqTo(t, n)

\* t[cols], of the columns that exist
Project(t, cols) == [i \in DOMAIN t |-> [c \in cols \cap DOMAIN t[i] |-> t[i][c]]]

TopByMetricColumns ==
    {"Symbol", "Expiry", "DTE", "Volume_PCR", "OI_PCR", "Divergence_Vol_minus_OI",
     "Impulse_Vol_over_OI", "EventScore_OIshare_x_OI_PCR", "Put_OI", "Call_OI",
     "Total_OI", "Put_Volume", "Call_Volume", "Quality_OK"}

TopExpiriesColumns ==
    {"Symbol", "Expiry", "OI_PCR", "Volume_PCR", "Put_OI", "Call_OI", "Total_OI",
     "Put_Volume", "Call_Volume"}

\* A slip that sorts ascending whatever direction is asked.
RankedAscending(t, metric, top_n, descending) ==
    HeadRows(SortBy(DropNaN(t, metric), metric, TRUE), top_n)

\* notna filter, sort_values(metric, ascending=not descending), head(top_n)
Ranked(t, metric, top_n, descending) ==
    HeadRows(SortBy(DropNaN(t, metric), metric, ~descending), top_n)

\* lines 262-277, for a metric that is a column of t
top_by_metric(t, metric, top_n, descending, require_quality_ok) ==
    Project(Ranked(QualityGate(t, require_quality_ok), metric, top_n, descending),
            TopByMetricColumns)

\* lines 242-251
top_expiries_by_oi_pcr(t, top_n) ==
    Project(Ranked(t, "OI_PCR", top_n, TRUE), TopExpiriesColumns)

Metrics == {"OI_PCR", "Impulse_Vol_over_OI", "EventScore_OIshare_x_OI_PCR"}

TopNs == 0..MaxTopN

TopByMetric ==
    /\ pc = "signals"
    /\ \E metric \in Metrics, top_n \in TopNs, descending \in BOOLEAN,
          require_quality_ok \in BOOLEAN :
          /\ query' = [fn |-> "top_by_metric", metric |-> metric, top_n |-> top_n,
                       descending |-> descending,
                       require_quality_ok |-> require_quality_ok]
          /\ IF metric \notin Columns(df)
             THEN /\ err' = "ValueError: Metric not found"
                  /\ pc' = "raised"
                  /\ UNCHANGED view
             ELSE /\ view' = top_by_metric(df, metric, top_n, descending,
                                           require_quality_ok)
                  /\ pc' = "viewed"
                  /\ UNCHANGED err
    /\ UNCHANGED <<base, asof, thr, order, df, totalsVars>>

TopExpiriesByOiPcr ==
    /\ pc = "signals"
    /\ \E top_n \in TopNs :
          /\ query' = [fn |-> "top_expiries_by_oi_pcr", metric |-> "OI_PCR",
                       top_n |-> top_n, descending |-> TRUE,
                       require_quality_ok |-> FALSE]
          /\ view' = top_expiries_by_oi_pcr(df, top_n)
    /\ pc' = "viewed"
    /\ UNCHANGED <<base, asof, thr, order, df, err, totalsVars>>

---------------------------------------------------------------------------
(* bucket_term_structure *)

Buckets ==
    << [Bucket |-> "Short_1_20", DTE_Min |-> 1, DTE_Max |-> 20],
       [Bucket |-> "Mid_21_60", DTE_Min |-> 21, DTE_Max |-> 60],
       [Bucket |-> "Long_61_120", DTE_Min |-> 61, DTE_Max |-> 120] >>

\* (t["DTE"] >= lo) & (t["DTE"] <= hi): False for a NaN DTE
InBand(r, lo, hi) == IsNum(r.DTE) /\ r.DTE.v >= lo /\ r.DTE.v <= hi

RECURSIVE SkipNaSum(_, _)
\* float(w[col].sum()): NaN cells are skipped
SkipNaSum(t, col) ==
    IF t = <<>> THEN 0 ELSE FillNa0(Head(t)[col]).v + SkipNaSum(Tail(t), col)

\* A slip that takes the share denominator over the banded rows only.
ShareDenominatorBanded(t) ==
    SkipNaSum(SelectSeq(t, LAMBDA r : \E b \in Range(Buckets) :
                                          InBand(r, b.DTE_Min, b.DTE_Max)),
              "Total_OI")

\* denom_total_oi: the Total_OI sum of the filtered table, before banding
ShareDenominator(t) == SkipNaSum(t, "Total_OI")

\* lines 193-219: the row of one band over the filtered table t
BucketRow(t, b, denom_total_oi) ==
    LET w        == SelectSeq(t, LAMBDA r : InBand(r, b.DTE_Min, b.DTE_Max))
        put_oi   == SkipNaSum(w, "Put_OI")
        call_oi  == SkipNaSum(w, "Call_OI")
        put_vol  == SkipNaSum(w, "Put_Volume")
        call_vol == SkipNaSum(w, "Call_Volume")
        total_oi == SkipNaSum(w, "Total_OI")
    IN  [Bucket                |-> b.Bucket,
         DTE_Min               |-> b.DTE_Min,
         DTE_Max               |-> b.DTE_Max,
         Sum_Put_OI            |-> Num(put_oi),
         Sum_Call_OI           |-> Num(call_oi),
         Bucket_OI_PCR         |-> SafeRatio6(put_oi, call_oi),
         Sum_Put_Volume        |-> Num(put_vol),
         Sum_Call_Volume       |-> Num(call_vol),
         Bucket_Volume_PCR     |-> SafeRatio6(put_vol, call_vol),
         Bucket_TotalOI        |-> Num(total_oi),
         Bucket_TotalOI_Share  |-> IF denom_total_oi > 0
                                   THEN Num(RoundRatio(total_oi, denom_total_oi, 6))
                                   ELSE NaN]

\* Bucket_TotalOI_Share * Bucket_OI_PCR before any rounding, in units of
\* 1e-12 and as limbs; <<>> stands for NaN.
RawScore(r) ==
    IF r.Bucket_TotalOI_Share.nan \/ r.Bucket_OI_PCR.nan THEN <<>>
    ELSE BigTimes(ToBig(r.Bucket_TotalOI_Share.v), r.Bucket_OI_PCR.v)

RECURSIVE RawScoreMax(_)
\* A slip that normalises by the largest score: scores.max() for scores.sum().
RawScoreMax(out) ==
    IF out = <<>> THEN <<0>>
    ELSE LET here == IF RawScore(Head(out)) = <<>> THEN <<0>> ELSE RawScore(Head(out))
             rest == RawScoreMax(Tail(out))
         IN  IF BigLeq(here, rest) THEN rest ELSE here

RECURSIVE RawScoreSum(_)
\* float(scores.sum()): NaN scores are skipped
RawScoreSum(out) ==
    IF out = <<>> THEN <<0>>
    ELSE BigAdd(IF RawScore(Head(out)) = <<>> THEN <<0>> ELSE RawScore(Head(out)),
                RawScoreSum(Tail(out)))

\* (score / denom) if denom > 0 else NaN, .round(6)
ConcentrationShareOf(r, denom) ==
    IF RawScore(r) = <<>> \/ denom = <<0>> THEN NaN
    ELSE Num(RoundBigRatio(RawScore(r), denom, 6))

\* score.round(8), in units of 1e-8
ConcentrationScoreOf(r) ==
    IF RawScore(r) = <<>> THEN NaN
    ELSE Num(RoundMulDiv(r.Bucket_TotalOI_Share.v, r.Bucket_OI_PCR.v, 10000, 0))

\* lines 178-236, for a table that has a DTE column
bucket_term_structure(table, require_quality_ok) ==
    LET t     == QualityGate(table, require_quality_ok)
        total == ShareDenominator(t)
        out   == [k \in DOMAIN Buckets |-> BucketRow(t, Buckets[k], total)]
        denom == RawScoreSum(out)
    IN  [k \in DOMAIN out |->
            ("Bucket_Concentration_Score" :> ConcentrationScoreOf(out[k]))
            @@ ("Bucket_Concentration_Share" :> ConcentrationShareOf(out[k], denom))
            @@ out[k]]

BucketTermStructure ==
    /\ pc = "signals"
    /\ \E require_quality_ok \in BOOLEAN :
          /\ query' = [fn |-> "bucket_term_structure", metric |-> "DTE", top_n |-> 0,
                       descending |-> FALSE,
                       require_quality_ok |-> require_quality_ok]
          /\ IF "DTE" \notin Columns(df)
             THEN /\ err' = "KeyError: DTE"
                  /\ pc' = "raised"
                  /\ UNCHANGED view
             ELSE /\ view' = bucket_term_structure(df, require_quality_ok)
                  /\ pc' = "viewed"
                  /\ UNCHANGED err
    /\ UNCHANGED <<base, asof, thr, order, df, totalsVars>>

IsPrefix(s, t) == Len(s) <= Len(t) /\ s = SubSeqTo(t, Len(s))

\* One statement of enrich_per_expiry (lines 161-164): the next pass.
EnrichStep == EnrichNext /\ IsPrefix(order', Passes)

ViewNext == EnrichStep \/ TopByMetric \/ TopExpiriesByOiPcr \/ BucketTermStructure

\* enrich_per_expiry statement by statement, and the rankers and the bucket
\* aggregation over the table it holds.
ViewSpec == SignalInit /\ [][ViewNext]_vars

---------------------------------------------------------------------------
(* Claims about the passes *)

\* Beyond every tolerance compared against below.
Far == 10000 * 10000

Clamp(x) == IF x > Far THEN Far ELSE IF x < -Far THEN -Far ELSE x

RECURSIVE ProductGap(_, _, _, _)
\* a * b - c * d, exactly when it lies within (-Far, Far) and else clamped
\* to -Far or Far, for 0 <= a, c <= 10^7 and b, d >= 0.
ProductGap(a, b, c, d) ==
    IF b = 0 /\ d = 0 THEN 0
    ELSE Clamp(10 * ProductGap(a, b \div 10, c, d \div 10)
               + a * (b % 10) - c * (d % 10))

\* 1 in units of 1e-6
Million == 1000 * 1000

SameSign(x, y) == (y >= 0 => x >= 0) /\ (y <= 0 => x <= 0)

HasColumn(col) == pc = "signals" /\ col \in Columns(df)

\* C4 as stated: Impulse is NaN whenever OI_PCR is NaN, 0 or negative, and
\* otherwise impulse x OI_PCR is within 1e-6 of Volume_PCR (both NaN when
\* Volume_PCR is NaN).
C4_ImpulseWithinAbsTolerance ==
    HasColumn("Impulse_Vol_over_OI") =>
        \A i \in DOMAIN df :
            LET r == df[i] IN
            IF r.OI_PCR.nan \/ r.OI_PCR.v <= 0 \/ r.Volume_PCR.nan
            THEN r.Impulse_Vol_over_OI.nan
            ELSE /\ IsNum(r.Impulse_Vol_over_OI)
                 /\ SameSign(r.Impulse_Vol_over_OI.v, r.Volume_PCR.v)
                 /\ Abs(ProductGap(r.OI_PCR.v, Abs(r.Impulse_Vol_over_OI.v),
                                   Million, Abs(r.Volume_PCR.v))) <= Million

\* C4 as amended: Impulse is NaN whenever OI_PCR is NaN, 0 or negative or
\* Volume_PCR is NaN, and otherwise it is Volume_PCR / OI_PCR rounded to 6
\* decimals: impulse x OI_PCR is within 0.5e-6 x OI_PCR of Volume_PCR.
C4_ImpulseWithinScaledTolerance ==
    HasColumn("Impulse_Vol_over_OI") =>
        \A i \in DOMAIN df :
            LET r == df[i] IN
            IF r.OI_PCR.nan \/ r.OI_PCR.v <= 0 \/ r.Volume_PCR.nan
            THEN r.Impulse_Vol_over_OI.nan
            ELSE /\ IsNum(r.Impulse_Vol_over_OI)
                 /\ SameSign(r.Impulse_Vol_over_OI.v, r.Volume_PCR.v)
                 /\ 2 * Abs(ProductGap(r.OI_PCR.v, Abs(r.Impulse_Vol_over_OI.v),
                                       Million, Abs(r.Volume_PCR.v))) <= r.OI_PCR.v

\* A table with a negative OI_PCR, a zero one, a NaN one, and a positive one
\* beside a NaN Volume_PCR, all with NaN impulse, next to a finite impulse.
C4_Witness ==
    /\ HasColumn("Impulse_Vol_over_OI")
    /\ \E i \in DOMAIN df : IsNum(df[i].OI_PCR) /\ df[i].OI_PCR.v < 0
                             /\ df[i].Impulse_Vol_over_OI.nan
    /\ \E i \in DOMAIN df : df[i].OI_PCR = Num(0) /\ df[i].Impulse_Vol_over_OI.nan
    /\ \E i \in DOMAIN df : df[i].OI_PCR = Num(7000000)
                             /\ df[i].Impulse_Vol_over_OI = Num(71429)

\* C8: with S the sum of Total_OI over all rows of the table (NaN as 0): if
\* S <= 0 every event score is NaN; otherwise a row's score is NaN exactly
\* when its OI_PCR is NaN and else is (Total_OI / S) x OI_PCR rounded to 8
\* decimals.  For the table of the expiries A and B the scores are
\* 0.27272727 and 1.81818182.
C8_EventScore ==
    HasColumn("EventScore_OIshare_x_OI_PCR") =>
        LET S == TotalOISum(df) IN
        /\ \A i \in DOMAIN df :
              LET r  == df[i]
                  es == r.EventScore_OIshare_x_OI_PCR
              IN  IF S <= 0 THEN es.nan
                  ELSE /\ es.nan <=> r.OI_PCR.nan
                       /\ IsNum(es) =>
                             /\ SameSign(es.v, r.OI_PCR.v)
                             /\ 2 * Abs(ProductGap(S, Abs(es.v), FillNa0(r.Total_OI).v,
                                                   100 * Abs(r.OI_PCR.v))) <= S
        /\ base = <<RowSamples[1], RowSamples[3]>> =>
              /\ df[1].EventScore_OIshare_x_OI_PCR = Num(27272727)
              /\ df[2].EventScore_OIshare_x_OI_PCR = Num(181818182)

\* The example table scored before the quality pass has run.
C8_Witness ==
    /\ HasColumn("EventScore_OIshare_x_OI_PCR")
    /\ "Quality_OK" \notin Columns(df)
    /\ base = <<RowSamples[1], RowSamples[3]>>
    /\ df[2].EventScore_OIshare_x_OI_PCR = Num(181818182)

\* A scored table with a NaN score beside a finite one, of which some row
\* fails the quality gate.
C8_WitnessNaN ==
    /\ HasColumn("EventScore_OIshare_x_OI_PCR")
    /\ \E i, j \in DOMAIN df : /\ df[i].EventScore_OIshare_x_OI_PCR.nan
                               /\ IsNum(df[j].EventScore_OIshare_x_OI_PCR)
                               /\ df[j].EventScore_OIshare_x_OI_PCR.v > 0

\* C9: every Quality_OK is a boolean, true iff Call_OI >= minCallOI and
\* Call_Volume >= minCallVol and Total_OI >= minTotalOI, and false for a row
\* with a NaN comparand.
C9_QualityFlag ==
    HasColumn("Quality_OK") =>
        \A i \in DOMAIN df :
            LET r == df[i] IN
            /\ r.Quality_OK \in BOOLEAN
            /\ (r.Call_OI.nan \/ r.Call_Volume.nan \/ r.Total_OI.nan) => ~r.Quality_OK
            /\ (IsNum(r.Call_OI) /\ IsNum(r.Call_Volume) /\ IsNum(r.Total_OI)) =>
                  (r.Quality_OK <=> /\ r.Call_OI.v >= thr[1]
                                    /\ r.Call_Volume.v >= thr[2]
                                    /\ r.Total_OI.v >= thr[3])

\* A flagged table with a row passing on three equalities, a row failing on
\* a number and a row failing on a NaN comparand.
C9_Witness ==
    /\ HasColumn("Quality_OK")
    /\ \E i \in DOMAIN df : /\ df[i].Quality_OK
                            /\ df[i].Call_OI.v = thr[1]
                            /\ df[i].Call_Volume.v = thr[2]
                            /\ df[i].Total_OI.v = thr[3]
    /\ \E i \in DOMAIN df : df[i].Call_OI.nan /\ ~df[i].Quality_OK
    /\ \E i \in DOMAIN df : IsNum(df[i].Call_OI) /\ IsNum(df[i].Total_OI)
                            /\ ~df[i].Quality_OK

PassColumns(pass) ==
    IF pass = "add_dte" THEN {"DTE"}
    ELSE IF pass = "add_flow_vs_positioning"
         THEN {"Divergence_Vol_minus_OI", "Impulse_Vol_over_OI"}
    ELSE IF pass = "add_quality_flags" THEN {"Quality_OK"}
    ELSE {"EventScore_OIshare_x_OI_PCR"}

\* C10: whatever the order of the passes applied so far, the table has the
\* columns of the aggregated table and of those passes, and every column of
\* every row holds the value the order of enrich_per_expiry gives it.
C10_OrderInsensitive ==
    pc = "signals" =>
        LET canonical == enrich_per_expiry(base, asof, thr) IN
        /\ Len(df) = Len(base)
        /\ Columns(df) = Columns(base) \cup UNION {PassColumns(p) : p \in Range(order)}
        /\ df = [i \in DOMAIN canonical |->
                    [c \in Columns(df) |-> canonical[i][c]]]

\* All four passes applied in the reverse of enrich_per_expiry's order, on a
\* table of which some row fails the quality gate and some row passes it.
C10_Witness ==
    /\ pc = "signals"
    /\ order = <<"add_event_score", "add_quality_flags", "add_flow_vs_positioning", "add_dte">>
    /\ \E i, j \in DOMAIN df : df[i].Quality_OK /\ ~df[j].Quality_OK
    /\ \E i \in DOMAIN df : IsNum(df[i].EventScore_OIshare_x_OI_PCR)

---------------------------------------------------------------------------
(* Claims about the rankers and the buckets *)

Ranking == pc = "viewed" /\ query.fn \in {"top_by_metric", "top_expiries_by_oi_pcr"}

Before(a, b, descending) == IF descending THEN a.v > b.v ELSE a.v < b.v

NotAfter(a, b, descending) == IF descending THEN a.v >= b.v ELSE a.v <= b.v

C5_WitnessAscending ==
    /\ Ranking
    /\ query.fn = "top_by_metric"
    /\ ~query.descending
    /\ query.require_quality_ok
    /\ Len(view) = 2
    /\ view[1][query.metric].v < view[2][query.metric].v
    /\ "Quality_OK" \in Columns(df)
    /\ \E i \in DOMAIN df : ~df[i].Quality_OK

Bucketed == pc = "viewed" /\ query.fn = "bucket_term_structure"

RECURSIVE ShareTotal(_)
\* the sum of the Bucket_Concentration_Share cells that are numbers
ShareTotal(out) ==
    IF out = <<>> THEN 0
    ELSE FillNa0(Head(out).Bucket_Concentration_Share).v + ShareTotal(Tail(out))

PositiveScore(r) ==
    IsNum(r.Bucket_Concentration_Score) /\ r.Bucket_Concentration_Score.v > 0

\* Whether Bucket_TotalOI_Share x Bucket_OI_PCR is a number other than 0.
NonZeroProduct(r) ==
    /\ IsNum(r.Bucket_TotalOI_Share) /\ r.Bucket_TotalOI_Share.v # 0
    /\ IsNum(r.Bucket_OI_PCR) /\ r.Bucket_OI_PCR.v # 0

C6_WitnessNoShare ==
    /\ Bucketed
    /\ \E k \in DOMAIN view : view[k].Bucket_TotalOI.v > 0
    /\ \E k \in DOMAIN view : view[k].Bucket_Concentration_Score = Num(0)
    /\ \A k \in DOMAIN view : view[k].Bucket_Concentration_Share.nan

\* The rows bucket_term_structure keeps: all of them, or those flagged
\* Quality_OK when the gate is asked for and the column exists.
Survivors ==
    {i \in DOMAIN df : (query.require_quality_ok /\ "Quality_OK" \in Columns(df))
                          => df[i].Quality_OK}

RECURSIVE CellSum(_, _)
\* the sum of column col over the rows of df indexed by I, NaN as 0
CellSum(I, col) ==
    IF I = {} THEN 0
    ELSE LET i == CHOOSE j \in I : TRUE
         IN  FillNa0(df[i][col]).v + CellSum(I \ {i}, col)

Members(lo, hi) ==
    {i \in Survivors : IsNum(df[i].DTE) /\ lo <= df[i].DTE.v /\ df[i].DTE.v <= hi}

BandOf(k) == IF k = 1 THEN <<"Short_1_20", 1, 20>>
             ELSE IF k = 2 THEN <<"Mid_21_60", 21, 60>>
             ELSE <<"Long_61_120", 61, 120>>

\* C7: the three buckets come in declared order; each sums the surviving
\* rows whose DTE lies in its inclusive band and no others (a row outside
\* every band or with a NaN DTE is in none); Bucket_TotalOI_Share is
\* Bucket_TotalOI over the Total_OI of all surviving rows, rounded to 6
\* decimals, NaN if that denominator is <= 0; a band without members has
\* zero sums and NaN ratios.
C7_BandsAndDenominator ==
    Bucketed =>
        /\ Len(view) = 3
        /\ \A k \in DOMAIN view :
              LET b == view[k]
                  m == Members(BandOf(k)[2], BandOf(k)[3])
                  D == CellSum(Survivors, "Total_OI")
              IN  /\ <<b.Bucket, b.DTE_Min, b.DTE_Max>> = BandOf(k)
                  /\ b.Bucket_TotalOI = Num(CellSum(m, "Total_OI"))
                  /\ b.Sum_Put_OI = Num(CellSum(m, "Put_OI"))
                  /\ b.Sum_Call_OI = Num(CellSum(m, "Call_OI"))
                  /\ b.Sum_Put_Volume = Num(CellSum(m, "Put_Volume"))
                  /\ b.Sum_Call_Volume = Num(CellSum(m, "Call_Volume"))
                  /\ IF D <= 0 THEN b.Bucket_TotalOI_Share.nan
                     ELSE /\ IsNum(b.Bucket_TotalOI_Share)
                          /\ 2 * Abs(ProductGap(D, b.Bucket_TotalOI_Share.v, Million,
                                                b.Bucket_TotalOI.v)) <= D
                  /\ m = {} => /\ b.Bucket_TotalOI = Num(0)
                               /\ b.Bucket_OI_PCR.nan
                               /\ b.Bucket_Volume_PCR.nan
        /\ \A i \in Survivors :
              Cardinality({k \in 1..3 : i \in Members(BandOf(k)[2], BandOf(k)[3])}) <= 1

\* A gated bucket table with an empty band and a filled one, whose
\* denominator counts a surviving row with open interest outside every band,
\* and from which the gate has removed a row.
C7_Witness ==
    /\ Bucketed
    /\ query.require_quality_ok
    /\ Survivors # DOMAIN df
    /\ \E i \in Survivors : /\ df[i].Total_OI.v > 0
                            /\ \A k \in 1..3 : i \notin Members(BandOf(k)[2], BandOf(k)[3])
    /\ \E k \in DOMAIN view : view[k].Bucket_TotalOI.v > 0
    /\ \E k \in DOMAIN view : view[k].Bucket_TotalOI = Num(0) /\ view[k].Bucket_OI_PCR.nan

\* A bucket table over a table holding a row with a NaN DTE, which is in no band.
C7_WitnessNaNDte ==
    /\ Bucketed
    /\ \E i \in Survivors : df[i].DTE.nan /\ df[i].Put_OI.v > 0
    /\ \E k \in DOMAIN view : view[k].Sum_Put_OI.v > 0

=============================================================================
